---- MODULE Spec2Model ----
(***************************************************************************)
(* Model of the pricing pipeline of src/app.py: the multiplier tables      *)
(* (gold_table, silver_table), the ceiling lookup (lookup_multiplier), the *)
(* SKU propagation (update_variant_price_fixed) and the run as a whole     *)
(* (process_precious_metals_data).                                         *)
(*                                                                         *)
(* Representation of values.                                               *)
(*   text cell    a sequence of one-character strings; NA is a missing     *)
(*                cell (pandas NaN in an object column)                    *)
(*   number       <<v>> with v in thousandths (mills) of a unit, or NaN    *)
(*   timestamp    <<t>> with t in ticks, TicksPerDay ticks to a day, or NaT*)
(*   multiplier   in hundredths (200 is 2.0)                               *)
(*   divisor      in ten-thousandths (10683 is 1.0683)                     *)
(*   breakpoint   the rational num / den, kept unevaluated                 *)
(***************************************************************************)
EXTENDS Integers, Sequences, FiniteSets, TLC

VARIABLES pc, now, gold_price, silver_price, raw_reference, raw_upload,
          reference, gold_factor_sorted, silver_factor_sorted,
          propagated, upload_updated, stats, query, found

vars == <<pc, now, gold_price, silver_price, raw_reference, raw_upload,
          reference, gold_factor_sorted, silver_factor_sorted,
          propagated, upload_updated, stats, query, found>>

-----------------------------------------------------------------------------
(* Bounds of the model *)

MaxRefRows == 2

MaxProdRows == 2

TicksPerDay == 2

MaxSpot == 6

MaxQuery == 12

-----------------------------------------------------------------------------
(* Missing values *)

NA == <<"<NA>">>

NaN == <<>>

NaT == <<>>

None == [none |-> TRUE]

\* pd.isna on a text cell; the empty text is not missing
isna(x) == x = NA

-----------------------------------------------------------------------------
(* Text operations *)

NanText == <<"n", "a", "n">>

\* Series.astype(str): a missing cell becomes the text 'nan'
astype_str(x) == IF x = NA THEN NanText ELSE x

\* Series.fillna("")
fillna_empty(x) == IF x = NA THEN <<>> ELSE x

\* str.replace(c, "") for a single character c
RemoveChar(s, c) == SelectSeq(s, LAMBDA x : x # c)

\* the characters Python's str.strip() removes at both ends
Whitespace == {" ", "\t"}

RECURSIVE lstrip(_)
lstrip(s) ==
    IF s # <<>> /\ Head(s) \in Whitespace THEN lstrip(Tail(s)) ELSE s

RECURSIVE rstrip(_)
rstrip(s) ==
    IF s # <<>> /\ s[Len(s)] \in Whitespace
    THEN rstrip(SubSeq(s, 1, Len(s) - 1)) ELSE s

strip(s) == rstrip(lstrip(s))

\* str.replace("SS", "S/S"): left to right, non-overlapping
RECURSIVE ReplaceSS(_)
ReplaceSS(s) ==
    IF Len(s) >= 2 /\ s[1] = "S" /\ s[2] = "S"
    THEN <<"S", "/", "S">> \o ReplaceSS(SubSeq(s, 3, Len(s)))
    ELSE IF s = <<>> THEN <<>>
    ELSE <<Head(s)>> \o ReplaceSS(Tail(s))

-----------------------------------------------------------------------------
(* Numbers: pd.to_numeric(errors="coerce") and rounding *)

DigitVal == ("0" :> 0) @@ ("1" :> 1) @@ ("2" :> 2) @@ ("3" :> 3) @@ ("4" :> 4)
            @@ ("5" :> 5) @@ ("6" :> 6) @@ ("7" :> 7) @@ ("8" :> 8) @@ ("9" :> 9)

IsDigits(s) == \A i \in 1..Len(s) : s[i] \in DOMAIN DigitVal

RECURSIVE IntVal(_)
IntVal(s) ==
    IF s = <<>> THEN 0
    ELSE IntVal(SubSeq(s, 1, Len(s) - 1)) * 10 + DigitVal[s[Len(s)]]

Pow10(n) == IF n = 0 THEN 1 ELSE IF n = 1 THEN 10 ELSE IF n = 2 THEN 100 ELSE 1000

\* Decimal text to mills: digits, at most one point, at most three decimals.
\* Anything else (empty text, letters, a missing cell) is NaN.  Signs and
\* exponents do not occur in the texts of the model.
to_numeric(x) ==
    IF x = NA \/ x = <<>> THEN NaN
    ELSE LET dots == {i \in 1..Len(x) : x[i] = "."}
         IN  IF dots = {}
             THEN IF IsDigits(x) THEN <<IntVal(x) * 1000>> ELSE NaN
             ELSE IF Cardinality(dots) > 1 THEN NaN
             ELSE LET p  == CHOOSE i \in dots : TRUE
                      ip == SubSeq(x, 1, p - 1)
                      fp == SubSeq(x, p + 1, Len(x))
                  IN  IF IsDigits(ip) /\ IsDigits(fp) /\ Len(ip) + Len(fp) > 0
                         /\ Len(fp) <= 3
                      THEN <<IntVal(ip) * 1000 + IntVal(fp) * Pow10(3 - Len(fp))>>
                      ELSE NaN

\* round half to even to a multiple of unit (numpy.around), for x >= 0
RoundHalfEven(x, unit) ==
    LET q == x \div unit
        r == x % unit
    IN  IF 2 * r < unit THEN q * unit
        ELSE IF 2 * r > unit THEN (q + 1) * unit
        ELSE IF q % 2 = 0 THEN q * unit ELSE (q + 1) * unit

\* Series.round(2) on a value in mills
round2(n) == IF n = NaN THEN NaN ELSE <<RoundHalfEven(n[1], 10)>>

-----------------------------------------------------------------------------
(* Multiplier tables *)

GoldDivisors == <<21000, 17000, 15000, 13500, 12500, 11750, 11000, 10683, 10000>>

GoldFactors == <<200, 180, 160, 140, 130, 120, 110, 105, 100>>

SilverDivisors == <<22000, 15573, 14615, 13571, 13073, 12025, 11176, 10555, 10000>>

SilverFactors == <<200, 160, 150, 140, 130, 120, 110, 105, 100>>

\* a table row: the breakpoint market / divisor, kept as the market price num
\* in mills over the divisor den in ten-thousandths, and its multiplier
FactorTable(market, divisors, factors) ==
    [i \in 1..Len(divisors) |->
        [num |-> market, den |-> divisors[i], Multiplier |-> factors[i]]]

gold_table(gold_market) == FactorTable(gold_market, GoldDivisors, GoldFactors)

silver_table(silver_market) == FactorTable(silver_market, SilverDivisors, SilverFactors)

\* a.num / a.den < b.num / b.den, for positive denominators
BreakpointLess(a, b) == a.num * b.den < b.num * a.den

\* insert row r into the ascending sequence s, after its equals
RECURSIVE InsertSorted(_, _)
InsertSorted(s, r) ==
    IF s = <<>> THEN <<r>>
    ELSE IF BreakpointLess(r, Head(s)) THEN <<r>> \o s
    ELSE <<Head(s)>> \o InsertSorted(Tail(s), r)

\* mutant of sort_values_market: the table sorted with ascending=False
RECURSIVE sort_values_descending(_)
sort_values_descending(t) ==
    IF t = <<>> THEN <<>>
    ELSE LET rest == sort_values_descending(SubSeq(t, 1, Len(t) - 1))
             r    == t[Len(t)]
             k    == Cardinality({i \in 1..Len(rest) : BreakpointLess(r, rest[i])})
         IN  SubSeq(rest, 1, k) \o <<r>> \o SubSeq(rest, k + 1, Len(rest))

\* factor.sort_values('Gold Market').reset_index(drop=True)
RECURSIVE sort_values_market(_)
sort_values_market(t) ==
    IF t = <<>> THEN <<>>
    ELSE InsertSorted(sort_values_market(SubSeq(t, 1, Len(t) - 1)), t[Len(t)])

\* mutant of BreakpointAbove: the comparison taken as >=
BreakpointAtOrAbove(r, value) == r.num * 10000 >= value * r.den

\* factor_df[market_col] > value, the value in mills
BreakpointAbove(r, value) == r.num * 10000 > value * r.den

find_multiplier_above(value, factor_df) ==
    IF value = NaN THEN NaN
    ELSE LET valid_matches == SelectSeq(factor_df, LAMBDA r : BreakpointAbove(r, value[1]))
         IN  IF valid_matches = <<>>
             THEN <<factor_df[Len(factor_df)].Multiplier>>
             ELSE <<valid_matches[1].Multiplier>>

\* mutant of lookup_multiplier_by_metal: silver recognised by 'SS'
lookup_multiplier_by_SS(row, gold_sorted, silver_sorted) ==
    IF row.gm = NaN \/ isna(row.metal) THEN NaN
    ELSE IF row.metal = <<"S", "S">>
         THEN find_multiplier_above(row.gm, silver_sorted)
         ELSE find_multiplier_above(row.gm, gold_sorted)

lookup_multiplier_by_metal(row, gold_sorted, silver_sorted) ==
    IF row.gm = NaN \/ isna(row.metal) THEN NaN
    ELSE IF row.metal = <<"S", "/", "S">>
         THEN find_multiplier_above(row.gm, silver_sorted)
         ELSE find_multiplier_above(row.gm, gold_sorted)

-----------------------------------------------------------------------------
(* Reference normalisation: process_precious_metals_data, first part *)

\* pd.to_datetime(errors="coerce"); the text of a timestamp is modelled by the
\* decimal digits of its tick, every other text is unparsable
to_datetime(x) ==
    IF x # NA /\ x # <<>> /\ IsDigits(x) THEN <<IntVal(x)>> ELSE NaT

\* DataFrame.max(axis=1) over the three parsed dates, skipping NaT
MaxDate(a, b, c) ==
    LET present == {d \in {a, b, c} : d # NaT}
    IN  IF present = {} THEN NaT
        ELSE CHOOSE d \in present : \A e \in present : e[1] <= d[1]

\* pd.Timestamp.today().normalize(): midnight of the current day
normalize(t) == t - (t % TicksPerDay)

DateColumns == {"Date Created", "Date Last Price Change", "Last Stocked"}

columns_to_drop == DateColumns \cup
    {"Bar Code ID", "Department", "Description", "Qty On Hand", "Type",
     "Vendor Name", "UID", "Vendor UID", "Photo"}

\* the columns lines 139-166 index without a guard
NormalizerColumns == DateColumns \cup {"Stock ID", "Metal"}

WithMaxDate(r) ==
    [sid |-> r.sid, metal |-> r.metal, ppu |-> r.ppu, gm |-> r.gm,
     maxdate |-> MaxDate(to_datetime(r.dc), to_datetime(r.dlpc), to_datetime(r.ls))]

\* d1 sorts strictly before d2 under ascending=False, NaT last
DateBefore(d1, d2) == d1 # NaT /\ (d2 = NaT \/ d1[1] > d2[1])

\* sort_values(by="Max Date", ascending=False): the default sort is not
\* stable, so rows of equal Max Date may come out in any order; the NaT rows
\* are appended in their original order
SortOrders(rows) ==
    {p \in Permutations(1..Len(rows)) :
        \A i, j \in 1..Len(rows) :
            i < j => /\ ~DateBefore(rows[p[j]].maxdate, rows[p[i]].maxdate)
                     /\ (rows[p[i]].maxdate = NaT /\ rows[p[j]].maxdate = NaT
                            => p[i] < p[j])}

KeepDate(r, today) == r.maxdate # NaT /\ r.maxdate[1] <= today

CleanStockID(x) == RemoveChar(astype_str(fillna_empty(x)), " ")

CleanMetal(x) == ReplaceSS(RemoveChar(astype_str(fillna_empty(x)), " "))

\* drop_duplicates(subset=["Stock ID"]): the first row of each Stock ID stays
RECURSIVE drop_duplicates(_, _)
drop_duplicates(rows, seen) ==
    IF rows = <<>> THEN <<>>
    ELSE IF Head(rows).sid \in seen THEN drop_duplicates(Tail(rows), seen)
    ELSE <<Head(rows)>> \o drop_duplicates(Tail(rows), seen \cup {Head(rows).sid})

CleanGoldMarket(x) ==
    to_numeric(RemoveChar(RemoveChar(RemoveChar(astype_str(fillna_empty(x)),
                                                ","), "-"), " "))

CleanPricePerUnit(x) ==
    LET n == to_numeric(x) IN IF n = NaN THEN <<0>> ELSE n

\* lines 163-165 on one row
CleanRow(r) == [r EXCEPT !.sid = CleanStockID(@), !.metal = CleanMetal(@)]

\* lines 169-179 on one row
TypeRow(r, cols) ==
    [r EXCEPT !.gm = IF "Gold Market" \in cols THEN CleanGoldMarket(@) ELSE @,
              !.ppu = IF "Price Per Unit" \in cols THEN CleanPricePerUnit(@) ELSE @]

\* lines 139-179 for one sort order p; frame.cols has every NormalizerColumns
NormalizeWith(frame, today, p) ==
    LET dated    == [i \in 1..Len(frame.rows) |-> WithMaxDate(frame.rows[i])]
        sorted   == [i \in 1..Len(dated) |-> dated[p[i]]]
        filtered == SelectSeq(sorted, LAMBDA r : KeepDate(r, today))
        cleaned  == [i \in 1..Len(filtered) |-> CleanRow(filtered[i])]
        deduped  == drop_duplicates(cleaned, {})
        typed    == [i \in 1..Len(deduped) |-> TypeRow(deduped[i], frame.cols)]
    IN  [cols |-> (frame.cols \cup {"Max Date"}) \ columns_to_drop,
         rows |-> typed]

\* every frame the reference normaliser can produce, or None when a column it
\* indexes is absent (KeyError)
NormalizeOutcomes(frame, today) ==
    IF ~(NormalizerColumns \subseteq frame.cols) THEN {None}
    ELSE {NormalizeWith(frame, today, p) :
            p \in SortOrders([i \in 1..Len(frame.rows) |-> WithMaxDate(frame.rows[i])])}

-----------------------------------------------------------------------------
(* Pricing: lookup_multiplier and the New Price column *)

\* pd.to_numeric(Multiplier, errors='coerce').fillna(1.0)
ResolvedMultiplier(row, gold_sorted, silver_sorted) ==
    LET m == lookup_multiplier_by_metal(row, gold_sorted, silver_sorted)
    IN  IF m = NaN THEN 100 ELSE m[1]

\* (Price Per Unit * Multiplier).round(2): mills times hundredths, rounded to
\* whole cents and given in mills again
NewPrice(ppu, multiplier) ==
    <<RoundHalfEven(ppu[1] * multiplier, 1000) \div 100>>

PriceRow(row, gold_sorted, silver_sorted) ==
    LET m == ResolvedMultiplier(row, gold_sorted, silver_sorted)
    IN  [sid |-> row.sid, metal |-> row.metal, ppu |-> row.ppu, gm |-> row.gm,
         maxdate |-> row.maxdate, Multiplier |-> m, NewPrice |-> NewPrice(row.ppu, m)]

\* the columns lines 181-191 index without a guard
PricingColumns == {"Gold Market", "Price Per Unit"}

-----------------------------------------------------------------------------
(* SKU propagation: update_variant_price_fixed *)

\* astype(str).str.strip(), then 'nan' reset to the empty text
CleanKey(x) ==
    LET s == strip(astype_str(x)) IN IF s = NanText THEN <<>> ELSE s

\* the condition under which a reference row is written to price_lookup
LookupWritten(row) ==
    LET stock_id == CleanKey(row.sid)
    IN  stock_id # <<>> /\ ~isna(stock_id) /\ row.NewPrice # NaN /\ stock_id # NanText

\* the keys written to price_lookup, in the order of the writes
RECURSIVE LookupWrites(_)
LookupWrites(rows) ==
    IF rows = <<>> THEN <<>>
    ELSE (IF LookupWritten(Head(rows)) THEN <<CleanKey(Head(rows).sid)>> ELSE <<>>)
         \o LookupWrites(Tail(rows))

\* price_lookup after the loop over the reference rows: the last write of a
\* key stands
RECURSIVE BuildLookup(_, _)
BuildLookup(rows, lookup) ==
    IF rows = <<>> THEN lookup
    ELSE LET row == Head(rows)
             key == CleanKey(row.sid)
         IN  IF LookupWritten(row)
             THEN BuildLookup(Tail(rows),
                     [k \in DOMAIN lookup \cup {key} |->
                         IF k = key THEN row.NewPrice ELSE lookup[k]])
             ELSE BuildLookup(Tail(rows), lookup)

EmptyLookup == [k \in {} |-> NaN]

\* mutant of RowOutcome: a SKU without a match leaves the loop uncounted
RowOutcomeNoMatchUncounted(variant_sku, price_lookup) ==
    IF variant_sku = <<>> \/ isna(variant_sku) THEN "blank"
    ELSE IF variant_sku \in DOMAIN price_lookup /\ price_lookup[variant_sku] # NaN
         THEN "updated" ELSE "uncounted"

\* what the loop does with one product row
RowOutcome(variant_sku, price_lookup) ==
    IF variant_sku = <<>> \/ isna(variant_sku) THEN "blank"
    ELSE IF variant_sku \in DOMAIN price_lookup
         THEN IF price_lookup[variant_sku] # NaN THEN "updated" ELSE "uncounted"
         ELSE "no_match"

CountOutcome(rows, price_lookup, outcome) ==
    Cardinality({i \in 1..Len(rows) : RowOutcome(rows[i].sku, price_lookup) = outcome})

update_variant_price_fixed(upload, ref) ==
    LET cleaned == [i \in 1..Len(upload.rows) |->
                       [upload.rows[i] EXCEPT !.sku = CleanKey(@)]]
        price_lookup == BuildLookup(ref.rows, EmptyLookup)
        result == [i \in 1..Len(cleaned) |->
                     IF RowOutcome(cleaned[i].sku, price_lookup) = "updated"
                     THEN [cleaned[i] EXCEPT !.price = price_lookup[cleaned[i].sku]]
                     ELSE cleaned[i]]
    IN  [result |-> [cols |-> upload.cols, rows |-> result],
         price_lookup |-> price_lookup,
         successful_updates |-> CountOutcome(cleaned, price_lookup, "updated"),
         skipped_blank_sku |-> CountOutcome(cleaned, price_lookup, "blank"),
         skipped_no_match |-> CountOutcome(cleaned, price_lookup, "no_match")]

\* lines 193-201: the two product columns are created when absent
PrepareUpload(upload) ==
    [cols |-> upload.cols \cup {"Variant Price", "Variant SKU"},
     rows |-> [i \in 1..Len(upload.rows) |->
                 [upload.rows[i] EXCEPT
                    !.price = IF "Variant Price" \in upload.cols
                              THEN to_numeric(@) ELSE <<0>>,
                    !.sku = IF "Variant SKU" \in upload.cols THEN @ ELSE <<>>]]]

-----------------------------------------------------------------------------
(* Output: rounding and sanitising, lines 206-232 *)

\* U+201A, U+0192, U+00C3, U+00C2 as they stand in the source, by name
Mojibake == <<"<201A>", "<0192>", "<00C3>", "<00C2>">>

RECURSIVE RemovePair(_, _, _)
RemovePair(s, a, b) ==
    IF Len(s) >= 2 /\ s[1] = a /\ s[2] = b THEN RemovePair(SubSeq(s, 3, Len(s)), a, b)
    ELSE IF s = <<>> THEN <<>>
    ELSE <<Head(s)>> \o RemovePair(Tail(s), a, b)

\* the chain of five str.replace calls
StripMojibake(s) ==
    RemovePair(RemoveChar(RemoveChar(RemoveChar(RemoveChar(s,
        Mojibake[1]), Mojibake[2]), Mojibake[3]), Mojibake[4]),
        Mojibake[3], Mojibake[1])

Sanitize(x) == IF isna(x) THEN x ELSE StripMojibake(x)

\* the dtype read_csv gives a column of text and empty cells: object when a
\* cell holds text or the frame has no row, float64 when every cell is empty
BodyDtype(rows) ==
    IF rows = <<>> \/ \E i \in 1..Len(rows) : rows[i].body # NA
    THEN "object" ELSE "float64"

\* lines 219-224 use the .str accessor, which raises on a non-object column
BodyAccessorRaises(frame) ==
    "Body (HTML)" \in frame.cols /\ BodyDtype(frame.rows) # "object"

FinalRows(rows) ==
    [i \in 1..Len(rows) |->
        [sku |-> Sanitize(rows[i].sku),
         price |-> round2(rows[i].price),
         body |-> Sanitize(rows[i].body)]]

-----------------------------------------------------------------------------
(* The inputs of a run *)

RefColumns == NormalizerColumns \cup PricingColumns \cup {"Photo"}

ProdColumns == {"Variant SKU", "Variant Price", "Title"}

Tables(rowset, n) == UNION {[1..k -> rowset] : k \in 0..n}

\* the text of the timestamp at tick t (t < 10)
DateText(t) == <<ToString(t)>>

Yesterday == DateText(0)

YesterdayLate == DateText(TicksPerDay - 1)

TodayMidnight == DateText(TicksPerDay)

TodayLate == DateText(2 * TicksPerDay - 1)

Tomorrow == DateText(2 * TicksPerDay)

RefRow(sid, metal, ppu, gm, dc, dlpc, ls) ==
    [sid |-> sid, metal |-> metal, ppu |-> ppu, gm |-> gm,
     dc |-> dc, dlpc |-> dlpc, ls |-> ls]

ProdRow(sku, price, body) == [sku |-> sku, price |-> price, body |-> body]

\* reference rows that differ in Stock ID, recency and price
RecencyRows ==
    {RefRow(sid, <<"G">>, ppu, <<"1", "2">>, dc, NA, NA) :
        sid \in {<<"A">>, <<"A", " ">>, <<"A", "\t">>},
        ppu \in {<<"1">>, <<"2", ".", "5">>},
        dc  \in {Yesterday, YesterdayLate}}

\* reference rows that differ in their three dates
DateTriples ==
    {<<NA, NA, NA>>, <<<<"x">>, NA, NA>>, <<Yesterday, NA, <<"x">>>>,
     <<Yesterday, TodayMidnight, NA>>, <<NA, Yesterday, TodayLate>>,
     <<Tomorrow, NA, YesterdayLate>>}

DateRows ==
    {RefRow(sid, <<"G">>, <<"3">>, <<"1", "2">>, d[1], d[2], d[3]) :
        sid \in {<<"A">>, <<"B">>}, d \in DateTriples}

\* reference rows that differ in Metal, Gold Market and Price Per Unit
MetalRows ==
    {RefRow(<<"A">>, metal, ppu, gm, Yesterday, NA, NA) :
        metal \in {NA, <<"G">>, <<"S", "S">>, <<"S", "/", "S">>,
                   <<"S", " ", "S">>, <<"S", "S", "S">>},
        ppu \in {NA, <<"x">>, <<"1", "0">>, <<"1", ".", "0", "0", "5">>,
                 <<"0", ".", "1", "5">>},
        gm \in {NA, <<"-">>, <<"x">>, <<"9">>, <<"1", "2">>, <<"1", ",", "2">>,
                <<"-", "1", "2">>, <<"2", "1">>, <<"3", "0">>}}

\* product rows that differ in Variant SKU and Variant Price
SkuRows ==
    {ProdRow(sku, price, NA) :
        sku \in {NA, <<"A">>, <<" ", "A", "\t">>, <<"B">>, <<" ", "n", "a", "n">>},
        price \in {<<"x">>, <<"7">>, <<"1", ".", "0", "1", "5">>}}

\* product rows that differ in Body (HTML)
BodyRows ==
    {ProdRow(<<"A">>, <<"7">>, body) :
        body \in {NA, <<"h">>, <<"<00C3>", "<201A>", "h", "<00C2>">>}}

Frame(cols, rows) == [cols |-> cols, rows |-> rows]

OneReference ==
    <<RefRow(<<"A">>, <<"G">>, <<"3">>, <<"1", "2">>, Yesterday, NA, NA)>>

TwoReferences ==
    <<RefRow(<<"A">>, <<"G">>, <<"3">>, <<"1", "2">>, Yesterday, NA, NA),
      RefRow(<<"n", "a", "n", " ">>, <<"G">>, <<"4">>, <<"1", "2">>, Yesterday, NA, NA)>>

\* the pairs (reference frame, product frame) a run starts from, as read_csv
\* delivers them: an empty cell is NA, and no text cell is empty or 'nan'
RecencyInputs ==
    {<<Frame(RefColumns, r), Frame(ProdColumns, <<ProdRow(sku, <<"7">>, NA)>>)>> :
        r \in Tables(RecencyRows, MaxRefRows), sku \in {<<"A">>, <<" ", "A">>}}

DateInputs ==
    {<<Frame(RefColumns, r), Frame(ProdColumns, <<ProdRow(sku, <<"7">>, NA)>>)>> :
        r \in Tables(DateRows, MaxRefRows), sku \in {<<"A">>}}

MetalInputs ==
    {<<Frame(RefColumns, <<r>>), Frame(ProdColumns, <<ProdRow(<<"A">>, <<"7">>, NA)>>)>> :
        r \in MetalRows}

SkuInputs ==
    {<<Frame(RefColumns, TwoReferences), Frame(ProdColumns, u)>> :
        u \in Tables(SkuRows, MaxProdRows)}

ColumnInputs ==
    {<<Frame(rc, OneReference), Frame(uc, u)>> :
        rc \in {RefColumns} \cup {RefColumns \ {c} : c \in RefColumns},
        uc \in {ProdColumns} \cup {ProdColumns \ {c} : c \in ProdColumns},
        u \in Tables(SkuRows, 1)}

BodyInputs ==
    {<<Frame(RefColumns, OneReference), Frame(ProdColumns \cup {"Body (HTML)"}, u)>> :
        u \in Tables(BodyRows, MaxProdRows)}

Inputs ==
    RecencyInputs \cup DateInputs \cup MetalInputs \cup SkuInputs
    \cup ColumnInputs \cup BodyInputs

\* spot prices in mills; main() lets a run start only with both above zero
SpotPrices == {1000 * k : k \in 1..MaxSpot} \cup {21000, 22000}

-----------------------------------------------------------------------------
(* The run: process_precious_metals_data *)

Init ==
    /\ pc = "start"
    /\ now \in TicksPerDay..(2 * TicksPerDay - 1)
    /\ gold_price = 21000
    /\ silver_price = 22000
    /\ \E in \in Inputs : raw_reference = in[1] /\ raw_upload = in[2]
    /\ reference = None
    /\ gold_factor_sorted = <<>>
    /\ silver_factor_sorted = <<>>
    /\ propagated = None
    /\ upload_updated = None
    /\ stats = None
    /\ query = NaN
    /\ found = NaN

\* the except branch: st.error(...) and return None, None
Fail ==
    /\ pc' = "error"
    /\ upload_updated' = None
    /\ stats' = None

\* lines 139-179
NormalizeReference ==
    /\ pc = "start"
    /\ \E out \in NormalizeOutcomes(raw_reference, normalize(now)) :
         IF out = None
         THEN Fail /\ UNCHANGED reference
         ELSE /\ reference' = out
              /\ pc' = "normalized"
              /\ UNCHANGED <<upload_updated, stats>>
    /\ UNCHANGED <<now, gold_price, silver_price, raw_reference, raw_upload,
                   gold_factor_sorted, silver_factor_sorted, propagated, query, found>>

\* lines 181-191; on a frame without rows DataFrame.apply(axis=1) gives an
\* empty Series and the step goes through
PriceReference ==
    /\ pc = "normalized"
    /\ IF ~(PricingColumns \subseteq reference.cols)
       THEN Fail /\ UNCHANGED <<reference, gold_factor_sorted, silver_factor_sorted>>
       ELSE LET gold_sorted == sort_values_market(gold_table(gold_price))
                silver_sorted == sort_values_market(silver_table(silver_price))
            IN  /\ gold_factor_sorted' = gold_sorted
                /\ silver_factor_sorted' = silver_sorted
                /\ reference' =
                     [cols |-> reference.cols \cup {"Multiplier", "New Price"},
                      rows |-> [i \in 1..Len(reference.rows) |->
                                  PriceRow(reference.rows[i], gold_sorted, silver_sorted)]]
                /\ pc' = "priced"
                /\ UNCHANGED <<upload_updated, stats>>
    /\ UNCHANGED <<now, gold_price, silver_price, raw_reference, raw_upload,
                   propagated, query, found>>

\* lines 193-204
Propagate ==
    /\ pc = "priced"
    /\ propagated' = update_variant_price_fixed(PrepareUpload(raw_upload), reference)
    /\ pc' = "propagated"
    /\ UNCHANGED <<now, gold_price, silver_price, raw_reference, raw_upload, reference,
                   gold_factor_sorted, silver_factor_sorted, upload_updated, stats,
                   query, found>>

\* lines 206-232
Finish ==
    /\ pc = "propagated"
    /\ IF BodyAccessorRaises(propagated.result)
       THEN Fail
       ELSE /\ upload_updated' = [cols |-> propagated.result.cols,
                                  rows |-> FinalRows(propagated.result.rows)]
            /\ stats' = [successful_updates |-> propagated.successful_updates,
                         skipped_blank_sku |-> propagated.skipped_blank_sku,
                         skipped_no_match |-> propagated.skipped_no_match,
                         total_rows |-> Len(propagated.result.rows),
                         reference_rows |-> Len(reference.rows)]
            /\ pc' = "done"
    /\ UNCHANGED <<now, gold_price, silver_price, raw_reference, raw_upload, reference,
                   gold_factor_sorted, silver_factor_sorted, propagated, query, found>>

Next == NormalizeReference \/ PriceReference \/ Propagate \/ Finish

Spec == Init /\ [][Next]_vars

-----------------------------------------------------------------------------
(* The multiplier tables and the ceiling lookup on their own: every spot     *)
(* price of SpotPrices against every query value of Queries.                 *)

\* query values in mills, in steps of half a unit, and the missing value
Queries == {<<500 * k>> : k \in 0..MaxQuery} \cup {<<21000>>, <<22000>>, NaN}

InitLookup ==
    /\ pc = "tables"
    /\ now = TicksPerDay
    /\ gold_price \in SpotPrices
    /\ silver_price \in SpotPrices
    /\ raw_reference = None
    /\ raw_upload = None
    /\ reference = None
    /\ gold_factor_sorted = <<>>
    /\ silver_factor_sorted = <<>>
    /\ propagated = None
    /\ upload_updated = None
    /\ stats = None
    /\ query \in Queries
    /\ found = NaN

\* lines 55-56 on the tables of lines 182-183
SortTables ==
    /\ pc = "tables"
    /\ gold_factor_sorted' = sort_values_market(gold_table(gold_price))
    /\ silver_factor_sorted' = sort_values_market(silver_table(silver_price))
    /\ pc' = "sorted"
    /\ UNCHANGED <<now, gold_price, silver_price, raw_reference, raw_upload, reference,
                   propagated, upload_updated, stats, query, found>>

\* find_multiplier_above(query, gold_factor_sorted)
FindGold ==
    /\ pc = "sorted"
    /\ found' = find_multiplier_above(query, gold_factor_sorted)
    /\ pc' = "gold"
    /\ UNCHANGED <<now, gold_price, silver_price, raw_reference, raw_upload, reference,
                   gold_factor_sorted, silver_factor_sorted, propagated, upload_updated,
                   stats, query>>

\* find_multiplier_above(query, silver_factor_sorted)
FindSilver ==
    /\ pc = "sorted"
    /\ found' = find_multiplier_above(query, silver_factor_sorted)
    /\ pc' = "silver"
    /\ UNCHANGED <<now, gold_price, silver_price, raw_reference, raw_upload, reference,
                   gold_factor_sorted, silver_factor_sorted, propagated, upload_updated,
                   stats, query>>

NextLookup == SortTables \/ FindGold \/ FindSilver

SpecLookup == InitLookup /\ [][NextLookup]_vars

-----------------------------------------------------------------------------
(* Properties *)

Silver == <<"S", "/", "S">>

RequiredColumns == NormalizerColumns \cup PricingColumns

Day(t) == t \div TicksPerDay

\* C1: once the SKU Propagator has processed the product rows, the product
\* table has as many rows as before and successful_updates + skipped_blank_sku
\* + skipped_no_match equals the number of product rows (total_rows).
C1_Conservation ==
    /\ pc \in {"propagated", "done"} =>
         /\ Len(propagated.result.rows) = Len(raw_upload.rows)
         /\ propagated.successful_updates + propagated.skipped_blank_sku
              + propagated.skipped_no_match = Len(raw_upload.rows)
    /\ pc = "done" =>
         /\ stats.total_rows = Len(raw_upload.rows)
         /\ stats.successful_updates + stats.skipped_blank_sku
              + stats.skipped_no_match = stats.total_rows

\* C1 witness: a finished run over two product rows, one updated and one
\* without a match
C1_Witness ==
    /\ pc = "done"
    /\ stats.total_rows = 2
    /\ stats.successful_updates = 1
    /\ stats.skipped_no_match = 1

\* C2: the SKU Propagator adds and removes no row, and changes no field but
\* Variant Price: Variant SKU and the passthrough fields of its output equal
\* those of its input, and so does the Variant Price of a row counted as
\* blank-SKU or no-match.
C2_OnlyVariantPriceMutated ==
    pc = "propagated" =>
        LET in  == PrepareUpload(raw_upload)
            out == propagated.result
        IN  /\ Len(out.rows) = Len(in.rows)
            /\ out.cols = in.cols
            /\ \A i \in 1..Len(in.rows) :
                 /\ out.rows[i].sku = in.rows[i].sku
                 /\ out.rows[i].body = in.rows[i].body
                 /\ RowOutcome(CleanKey(in.rows[i].sku), propagated.price_lookup)
                        \in {"blank", "no_match"}
                      => out.rows[i].price = in.rows[i].price

\* C3: a product row whose non-empty Variant SKU equals the Stock ID of a
\* reference row that passes the date filter ends with the New Price of a most
\* recent such row (by Max Date) as its Variant Price, and is counted as a
\* successful update.
C3_MostRecentPriceWins ==
    pc = "done" =>
        \A i \in 1..Len(raw_upload.rows) :
            LET sku    == CleanKey(PrepareUpload(raw_upload).rows[i].sku)
                raw    == raw_reference.rows
                dated  == [j \in 1..Len(raw) |-> WithMaxDate(raw[j])]
                Cand   == {j \in 1..Len(raw) :
                              /\ KeepDate(dated[j], normalize(now))
                              /\ CleanStockID(dated[j].sid) = sku}
                Newest == {j \in Cand :
                              \A k \in Cand : dated[k].maxdate[1] <= dated[j].maxdate[1]}
            IN  sku # <<>> /\ Cand # {} =>
                  /\ \E j \in Newest :
                        upload_updated.rows[i].price =
                          PriceRow(TypeRow(CleanRow(dated[j]), raw_reference.cols),
                                   gold_factor_sorted, silver_factor_sorted).NewPrice
                  /\ RowOutcome(sku, propagated.price_lookup) = "updated"

\* C4: after normalisation the Stock ID values are pairwise distinct, and no
\* key of the Stock ID -> New Price mapping is written more than once.
C4_KeysWrittenOnce ==
    pc \in {"priced", "propagated", "done"} =>
        LET rows   == reference.rows
            writes == LookupWrites(rows)
        IN  /\ \A i, j \in 1..Len(rows) : i # j => rows[i].sid # rows[j].sid
            /\ \A i, j \in 1..Len(writes) : i # j => writes[i] # writes[j]

\* C5: a reference row is kept if and only if its Max Date is present and on
\* or before today, the moment of processing: the Stock ID of a row dated at
\* or before the moment of processing is in the normalised table, and no row
\* of the normalised table lacks a Max Date or is dated after the current day.
C5_KeptIffOnOrBeforeToday ==
    pc \in {"normalized", "priced", "propagated", "done"} =>
        /\ \A j \in 1..Len(raw_reference.rows) :
             LET md == WithMaxDate(raw_reference.rows[j]).maxdate
             IN  md # NaT /\ md[1] <= now =>
                   \E i \in 1..Len(reference.rows) :
                       reference.rows[i].sid = CleanStockID(raw_reference.rows[j].sid)
        /\ \A i \in 1..Len(reference.rows) :
             /\ reference.rows[i].maxdate # NaT
             /\ Day(reference.rows[i].maxdate[1]) <= Day(now)

\* C8: running the Reference Normalizer on its own output succeeds and yields
\* the same table.
C8_NormalizeIdempotent ==
    pc = "normalized" =>
        \A again \in NormalizeOutcomes(reference, normalize(now)) :
            again # None /\ again = reference

\* C9: a run ends either with an output table and a statistics record or
\* with one terminal error and neither; and it ends with the error only when
\* a required column is absent.
C9_OnlyStructuralFailures ==
    /\ pc = "done" => upload_updated # None /\ stats # None
    /\ pc = "error" => upload_updated = None /\ stats = None
    /\ pc = "error" => ~(RequiredColumns \subseteq raw_reference.cols)

\* C10: a normalised row whose Metal is exactly "S/S" (a raw "SS" included)
\* takes its multiplier from the silver table and any other row from the gold
\* table; a row whose Gold Market is missing or unparsable has Multiplier 1.0
\* and its Price Per Unit, rounded to 2 decimals, as New Price.
C10_MetalRouting ==
    pc \in {"priced", "propagated", "done"} =>
        /\ \A i \in 1..Len(reference.rows) :
             LET r == reference.rows[i]
             IN  /\ r.gm # NaN /\ r.metal = Silver =>
                       <<r.Multiplier>> = find_multiplier_above(r.gm, silver_factor_sorted)
                 /\ r.gm # NaN /\ r.metal # Silver =>
                       <<r.Multiplier>> = find_multiplier_above(r.gm, gold_factor_sorted)
                 /\ r.gm = NaN => r.Multiplier = 100 /\ r.NewPrice = round2(r.ppu)
        /\ Len(raw_reference.rows) = 1 /\ Len(reference.rows) = 1 =>
             LET raw == raw_reference.rows[1]
                 r   == reference.rows[1]
             IN  /\ raw.metal = <<"S", "S">> => r.metal = Silver
                 /\ raw.metal = NA => r.metal = <<>>
                 /\ raw.gm \in {NA, <<"x">>, <<"-">>} => r.gm = NaN

\* C10 witness: a raw "SS" row priced from the silver table, at a Gold Market
\* value where the gold table gives another multiplier; and a row without a
\* Gold Market whose New Price is its rounded Price Per Unit
C10_Witness ==
    /\ pc = "priced"
    /\ Len(reference.rows) = 1
    /\ raw_reference.rows[1].metal = <<"S", "S">>
    /\ reference.rows[1].gm = <<12000>>
    /\ reference.rows[1].Multiplier = 160
    /\ find_multiplier_above(<<12000>>, gold_factor_sorted) = <<180>>

\* C6: on a table sorted ascending by breakpoint, the lookup of a non-missing
\* value returns the multiplier of the first breakpoint strictly greater than
\* the value; when no breakpoint is strictly greater it returns the multiplier
\* of the last row, which is 1.0; a value below the smallest breakpoint gets
\* the first row's multiplier.
C6_CeilingLookup ==
    pc \in {"gold", "silver"} /\ query # NaN =>
        LET T     == IF pc = "gold" THEN gold_factor_sorted ELSE silver_factor_sorted
            Above == {i \in 1..Len(T) : T[i].num * 10000 > query[1] * T[i].den}
        IN  /\ Above # {} =>
                 found = <<T[CHOOSE i \in Above : \A k \in Above : i <= k].Multiplier>>
            /\ Above = {} => found = <<T[Len(T)].Multiplier>> /\ found = <<100>>
            /\ 1 \in Above => found = <<T[1].Multiplier>>

\* C6 witness: a value equal to the highest breakpoint falls to the last row
C6_Witness ==
    /\ pc = "gold"
    /\ query = <<gold_price>>
    /\ found = <<100>>

\* C7: for a spot price above zero each table has 9 pairs with breakpoint
\* spot price / divisor; sorted, the breakpoints increase strictly, the
\* multipliers descend, and the multiplier of the highest breakpoint is 1.0.
C7_TableShape ==
    pc \in {"sorted", "gold", "silver"} =>
        \A side \in {"gold", "silver"} :
            LET T    == IF side = "gold" THEN gold_factor_sorted ELSE silver_factor_sorted
                spot == IF side = "gold" THEN gold_price ELSE silver_price
                divs == IF side = "gold" THEN GoldDivisors ELSE SilverDivisors
                facs == IF side = "gold" THEN GoldFactors ELSE SilverFactors
            IN  /\ Len(T) = 9
                /\ {T[i] : i \in 1..Len(T)} =
                     {[num |-> spot, den |-> divs[i], Multiplier |-> facs[i]] : i \in 1..9}
                /\ \A i \in 1..(Len(T) - 1) :
                     /\ T[i].num * T[i + 1].den < T[i + 1].num * T[i].den
                     /\ T[i].Multiplier > T[i + 1].Multiplier
                /\ T[Len(T)].Multiplier = 100

\* C7 witness: both tables built and sorted for two different spot prices
C7_Witness ==
    /\ pc = "sorted"
    /\ gold_price # silver_price
    /\ Len(gold_factor_sorted) = 9
    /\ Len(silver_factor_sorted) = 9

====
